---- MODULE Spec2Model ----
(***************************************************************************)
(* Model of the ADTEC anonymisation programs: the batch pipeline           *)
(* (src/app.py) and the Flask application (src/web_app.py).                *)
(*                                                                         *)
(* A text is a sequence of one-character strings.  A cell value is a       *)
(* record [t, v]: t = "str" for a Python str (v its characters), t = "nan" *)
(* for the null marker (np.nan), t = "int" for a non-text number (v the    *)
(* characters of str(number)).                                             *)
(***************************************************************************)
EXTENDS Integers, Sequences, FiniteSets, TLC

VARIABLES
    file,              \* the spreadsheet FILE_NAME on disk: [exists, df]
    inp, out, mpc,     \* one masker call: argument, result, which masker ran
    column_map, output, total_rows, cpf_masked_count, pc,
                       \* app.py: locals of process_data_and_anonymize and OUTPUT_FILE
    DF_ORIGINAL, DF_MASKED, COLUMN_MAP, NAME_COLS,
                       \* web_app.py: the module globals
    session, response  \* web_app.py: the Flask session and the last response

maskVars == <<inp, out, mpc>>
batchVars == <<column_map, output, total_rows, cpf_masked_count, pc>>
globalVars == <<DF_ORIGINAL, DF_MASKED, COLUMN_MAP, NAME_COLS>>
webVars == <<DF_ORIGINAL, DF_MASKED, COLUMN_MAP, NAME_COLS, session, response>>
vars == <<file, inp, out, mpc, column_map, output, total_rows, cpf_masked_count, pc,
          DF_ORIGINAL, DF_MASKED, COLUMN_MAP, NAME_COLS, session, response>>

----------------------------------------------------------------------------
(* Bounds *)

NRows == 5          \* rows of a generated table
MaxCols == 3        \* columns of a generated table
MaxNameLen == 4     \* length of the exhaustively generated masker inputs
MaxPage == 2        \* page numbers requested from /data

----------------------------------------------------------------------------
(* Characters and texts *)

Digit == {"0", "1", "2", "3", "4", "5", "6", "7", "8", "9"}
Whitespace == {" ", "\t"}
UpperSeq == <<"A", "B", "C", "D", "E", "F", "G", "H", "I", "J", "K", "L", "M",
              "N", "O", "P", "Q", "R", "S", "T", "U", "V", "W", "X", "Y", "Z", "Á">>
LowerSeq == <<"a", "b", "c", "d", "e", "f", "g", "h", "i", "j", "k", "l", "m",
              "n", "o", "p", "q", "r", "s", "t", "u", "v", "w", "x", "y", "z", "á">>
Upper == {UpperSeq[i] : i \in 1..Len(UpperSeq)}
Lower == {LowerSeq[i] : i \in 1..Len(LowerSeq)}
Cased(c) == c \in Upper \/ c \in Lower

LowerChar(c) ==
    IF c \in Upper THEN LowerSeq[CHOOSE i \in 1..Len(UpperSeq) : UpperSeq[i] = c] ELSE c

\* str.lower()
lower(s) == [i \in 1..Len(s) |-> LowerChar(s[i])]

\* `sub in s` for two texts
Contains(s, sub) ==
    \E i \in 1..(Len(s) - Len(sub) + 1) : SubSeq(s, i, i + Len(sub) - 1) = sub

\* `not s.strip()`: the text has no character that is not whitespace
IsBlank(s) == \A i \in 1..Len(s) : s[i] \in Whitespace

\* str.split(): the maximal runs of non-whitespace characters, in order
RECURSIVE SplitFrom(_, _, _)
SplitFrom(s, i, cur) ==
    IF i > Len(s) THEN (IF cur = <<>> THEN <<>> ELSE <<cur>>)
    ELSE IF s[i] \in Whitespace
         THEN (IF cur = <<>> THEN <<>> ELSE <<cur>>) \o SplitFrom(s, i + 1, <<>>)
         ELSE SplitFrom(s, i + 1, Append(cur, s[i]))
split(s) == SplitFrom(s, 1, <<>>)

\* ' '.join(parts)
RECURSIVE join(_)
join(parts) ==
    IF parts = <<>> THEN <<>>
    ELSE IF Len(parts) = 1 THEN parts[1]
    ELSE parts[1] \o <<" ">> \o join(Tail(parts))

\* str.istitle(): uppercase only after uncased, lowercase only after cased,
\* and at least one cased character
istitle(s) ==
    /\ \E i \in 1..Len(s) : Cased(s[i])
    /\ \A i \in 1..Len(s) :
          /\ s[i] \in Upper => (i = 1 \/ ~Cased(s[i - 1]))
          /\ s[i] \in Lower => (i > 1 /\ Cased(s[i - 1]))

Stars(n) == [i \in 1..n |-> "*"]

----------------------------------------------------------------------------
(* Cell values *)

Str(s) == [t |-> "str", v |-> s]
Num(s) == [t |-> "int", v |-> s]
NaN == [t |-> "nan", v |-> <<>>]

isinstance_str(x) == x.t = "str"
isnull(x) == x.t = "nan"
\* astype(str) on a non-null value
astype_str(x) == x.v

----------------------------------------------------------------------------
(* Regular expressions: \d{3}\.\d{3}\.\d{3}-\d{2}, as a sequence of          *)
(* one-character matchers ("\\d" is the digit class)                       *)

cpf_pattern == <<"\\d", "\\d", "\\d", ".", "\\d", "\\d", "\\d", ".",
                 "\\d", "\\d", "\\d", "-", "\\d", "\\d">>

ElemMatch(p, c) == IF p = "\\d" THEN c \in Digit ELSE c = p

\* the pattern matches s at position i
MatchAt(pat, s, i) ==
    /\ i + Len(pat) - 1 <= Len(s)
    /\ \A j \in 1..Len(pat) : ElemMatch(pat[j], s[i + j - 1])

\* re.search(pat, s)
re_search(pat, s) == \E i \in 1..Len(s) : MatchAt(pat, s, i)

\* re.fullmatch(pat, s), the pattern having a fixed length
re_fullmatch(pat, s) == Len(s) = Len(pat) /\ MatchAt(pat, s, 1)

\* the replacement r'\1.***.***-\2' of one match m
CpfReplacement(m) ==
    SubSeq(m, 1, 3) \o <<".", "*", "*", "*", ".", "*", "*", "*", "-">> \o SubSeq(m, 13, 14)

\* re.sub(cpf_pattern, r'\1.***.***-\2', s): every leftmost non-overlapping match
RECURSIVE SubFrom(_, _)
SubFrom(s, i) ==
    IF i > Len(s) THEN <<>>
    ELSE IF MatchAt(cpf_pattern, s, i)
         THEN CpfReplacement(SubSeq(s, i, i + Len(cpf_pattern) - 1))
                  \o SubFrom(s, i + Len(cpf_pattern))
         ELSE <<s[i]>> \o SubFrom(s, i + 1)
re_sub_cpf(s) == SubFrom(s, 1)

----------------------------------------------------------------------------
(* The maskers *)

MaskPart_KeepLength(part) ==
    IF Len(part) > 0 THEN <<part[1]>> \o Stars(Len(part)) ELSE part

\* one later word of a name: first letter, then N-1 asterisks
MaskPart(part) ==
    IF Len(part) > 0 THEN <<part[1]>> \o Stars(Len(part) - 1) ELSE part

mask_name(full_name) ==
    IF ~isinstance_str(full_name) \/ IsBlank(full_name.v) THEN full_name
    ELSE LET parts == split(full_name.v) IN
         IF parts = <<>> THEN full_name
         ELSE Str(join(<<parts[1]>>
                       \o [i \in 1..(Len(parts) - 1) |-> MaskPart(parts[i + 1])]))

CpfMatches_Search(s) == re_search(cpf_pattern, s)

\* the test of mask_cpf: the whole text is a CPF
CpfMatches(s) == re_fullmatch(cpf_pattern, s)

mask_cpf(cpf) ==
    IF ~isinstance_str(cpf) THEN cpf
    ELSE IF CpfMatches(cpf.v) THEN Str(re_sub_cpf(cpf.v))
    ELSE NaN

----------------------------------------------------------------------------
(* DataFrames: a sequence of columns [name, dtype, cells], all columns of   *)
(* one frame having the same number of cells                               *)

Mascarado == <<"M", "a", "s", "c", "a", "r", "a", "d", "o">>
\* f'{name} Mascarado'
MaskedName(name) == name \o <<" ">> \o Mascarado
CPF_Mascarado == <<"C", "P", "F", " ">> \o Mascarado

columns(df) == [i \in 1..Len(df) |-> df[i].name]
HasCol(df, name) == \E i \in 1..Len(df) : df[i].name = name
\* the place of the column called name
ColIndex(df, name) == CHOOSE i \in 1..Len(df) : df[i].name = name
\* df[name]
Col(df, name) == df[ColIndex(df, name)].cells
\* df[name] = cells: replaces the column in place, or appends a new one
SetCol(df, name, cells) ==
    IF HasCol(df, name)
    THEN [df EXCEPT ![ColIndex(df, name)] = [@ EXCEPT !.cells = cells, !.dtype = "object"]]
    ELSE Append(df, [name |-> name, dtype |-> "object", cells |-> cells])
\* len(df)
len_df(df) == IF df = <<>> THEN 0 ELSE Len(df[1].cells)
\* df.empty
empty(df) == Len(df) = 0 \/ len_df(df) = 0
\* series.dropna()
IsNotNull(x) == ~isnull(x)
dropna(cells) == SelectSeq(cells, IsNotNull)
\* series.dropna().astype(str)
AsText(nonnull) == [i \in 1..Len(nonnull) |-> astype_str(nonnull[i])]
TextSeries(cells) == AsText(dropna(cells))
\* series.apply(pred).sum()
CountWhere(series, P(_)) == Cardinality({i \in 1..Len(series) : P(series[i])})

----------------------------------------------------------------------------
(* classify_columns *)

CpfThresholdPct == 80
DigitsThresholdPct == 20

name_keywords == {
    <<"p", "r", "o", "p", "r", "i", "e", "t", "á", "r", "i", "o">>,
    <<"t", "i", "t", "u", "l", "a", "r">>,
    <<"n", "o", "m", "e">>,
    <<"c", "o", "n", "t", "r", "a", "t", "a", "n", "t", "e">>}

IsCpfText(x) == re_fullmatch(cpf_pattern, x)
HasDigit(x) == \E i \in 1..Len(x) : x[i] \in Digit

MatchRateReached_Strict(matches, total) == 100 * matches > CpfThresholdPct * total

\* match_rate >= 0.80, with match_rate = matches / total
MatchRateReached(matches, total) == 100 * matches >= CpfThresholdPct * total

\* has_numbers_rate < 0.20
DigitsRateLow(withDigits, total) == 100 * withDigits < DigitsThresholdPct * total

\* the test of the CPF loop on the non-null values of one candidate column
IsCpfSeries(series) ==
    /\ series # <<>>
    /\ MatchRateReached(CountWhere(series, IsCpfText), Len(series))
IsCpfColumn(cells) == IsCpfSeries(TextSeries(cells))

\* any(keyword in col_lower for keyword in name_keywords)
KeywordIn(col_lower) == \E k \in name_keywords : Contains(col_lower, k)
HasKeyword(col) == KeywordIn(lower(col))

\* 2.2: the content heuristic of the name loop, on the non-null values
NameBySeries(series) ==
    /\ series # <<>>
    /\ DigitsRateLow(CountWhere(series, HasDigit), Len(series))
    /\ Len(split(series[1])) >= 2
    /\ istitle(series[1])
NameByContent(cells) == NameBySeries(TextSeries(cells))

IsNameColumn_ContentFirst(col, cells) ==
    TextSeries(cells) # <<>> /\ (HasKeyword(col) \/ NameByContent(cells))

\* the body of the name loop: keyword rule first, else the content heuristic
IsNameColumn(col, cells) == HasKeyword(col) \/ NameByContent(cells)

IsObject(c) == c.dtype = "object"
IsCpfCandidate(c) == IsCpfColumn(c.cells)
IsNameCandidate(c) == IsNameColumn(c.name, c.cells)

\* the CPF loop: the place of the first candidate that passes the test, 0 if none
FirstOf(hits) == IF hits = {} THEN 0 ELSE CHOOSE i \in hits : \A j \in hits : i <= j
FirstCpf(candidate_cols) ==
    FirstOf({i \in 1..Len(candidate_cols) : IsCpfCandidate(candidate_cols[i])})

\* `if cpf_found: candidate_cols.remove(cpf_found)`; column names are not empty
WithoutCpf(candidate_cols, found) ==
    IF found = 0 THEN candidate_cols
    ELSE [i \in 1..(Len(candidate_cols) - 1) |->
             IF i < found THEN candidate_cols[i] ELSE candidate_cols[i + 1]]

ClassifyCandidates(candidate_cols, found) ==
    [isNone |-> FALSE,
     hasCPF |-> found # 0,
     CPF |-> IF found # 0 THEN candidate_cols[found].name ELSE <<>>,
     NOME |-> columns(SelectSeq(WithoutCpf(candidate_cols, found), IsNameCandidate))]

ClassifyAmong(candidate_cols) == ClassifyCandidates(candidate_cols, FirstCpf(candidate_cols))

classify_columns(df) == ClassifyAmong(SelectSeq(df, IsObject))

NoMap == [isNone |-> TRUE, hasCPF |-> FALSE, CPF |-> <<>>, NOME |-> <<>>]

----------------------------------------------------------------------------
(* Masking a frame *)

\* series.apply(mask_cpf)
RECURSIVE ApplyMaskCpf(_)
ApplyMaskCpf(cells) ==
    IF cells = <<>> THEN <<>>
    ELSE <<mask_cpf(Head(cells))>> \o ApplyMaskCpf(Tail(cells))

\* series.apply(mask_name)
RECURSIVE ApplyMaskName(_)
ApplyMaskName(cells) ==
    IF cells = <<>> THEN <<>>
    ELSE <<mask_name(Head(cells))>> \o ApplyMaskName(Tail(cells))

\* for name_col in name_cols: df[f'{name_col} Mascarado'] = df[name_col].apply(mask_name)
RECURSIVE MaskNames(_, _)
MaskNames(df, name_cols) ==
    IF name_cols = <<>> THEN df
    ELSE MaskNames(SetCol(df, MaskedName(name_cols[1]),
                          ApplyMaskName(Col(df, name_cols[1]))),
                   Tail(name_cols))

\* df['CPF Mascarado'] = df[cpf_col].apply(mask_cpf), then the name loop
MaskFrame(df, cpf_col, name_cols) ==
    MaskNames(SetCol(df, CPF_Mascarado, ApplyMaskCpf(Col(df, cpf_col))), name_cols)

----------------------------------------------------------------------------
(* Inputs: cell values, column contents, tables, masker arguments *)

ValidCpf == Str(<<"1", "2", "3", ".", "4", "5", "6", ".", "7", "8", "9", "-", "0", "9">>)
OtherCpf == Str(<<"9", "8", "7", ".", "6", "5", "4", ".", "3", "2", "1", "-", "0", "0">>)
BadCpf == Str(<<"1", "2", "3", ".", "4", "5", "6", ".", "7", "8", "-", "0", "9">>)
NumCpf == Num(<<"1", "2", "3", "4", "5", "6", "7", "8", "9", "0", "9">>)
TitleName == Str(<<"M", "a", "r", "i", "a", " ", "S", "i", "l", "v", "a">>)
LongName == Str(<<"M", "a", "r", "i", "a", " ", "A", "p", "a", "r", "e", "c", "i", "d", "a", " ", "S", "i", "l", "v", "a">>)
Address == Str(<<"R", "u", "a", " ", "5">>)

Fill(a, b, k, n) == [i \in 1..n |-> IF i <= k THEN a ELSE b]

\* column contents of n rows: [dtype, cells]
Content(dtype, cells) == [dtype |-> dtype, cells |-> cells]
CpfAtThreshold(n) == Content("object", Fill(ValidCpf, BadCpf, n - 1, n))
CpfWithNumber(n) == Content("object", Fill(OtherCpf, NumCpf, n - 1, n))
CpfBelowThreshold(n) == Content("object", Fill(ValidCpf, BadCpf, n - 2, n))
NamesAfterNull(n) == Content("object", Fill(NaN, LongName, 1, n))
AddressesAfterName(n) == Content("object", Fill(TitleName, Address, 1, n))
NullText(n) == Content("object", Fill(NaN, NaN, 0, n))
NullFloat(n) == Content("float64", Fill(NaN, NaN, 0, n))

BatchContents(n) ==
    {CpfWithNumber(n), CpfBelowThreshold(n), NamesAfterNull(n), NullText(n), NullFloat(n)}
WebContents(n) == {CpfAtThreshold(n), AddressesAfterName(n)}

ColCPF == <<"C", "P", "F">>
ColTitular == <<"T", "i", "t", "u", "l", "a", "r">>
ColTitularMascarado == MaskedName(ColTitular)
ColCidade == <<"C", "i", "d", "a", "d", "e">>
NamePool == {ColCPF, ColTitular, ColTitularMascarado, ColCidade}

Injective(f) == \A i, j \in DOMAIN f : f[i] = f[j] => i = j

\* the frame with the column names ns and the column contents cs
Table(ns, cs) ==
    [i \in 1..Len(ns) |-> [name |-> ns[i], dtype |-> cs[i].dtype, cells |-> cs[i].cells]]

NoFile == [exists |-> FALSE, df |-> <<>>]

\* the spreadsheet holds a frame of 1..maxc columns, with distinct names of the
\* pool and contents of the given ones
FileHolds(exists, contents, maxc) ==
    \E k \in 1..maxc :
        \E ns \in [1..k -> NamePool] :
            /\ Injective(ns)
            /\ \E cs \in [1..k -> contents] :
                  file = [exists |-> exists, df |-> Table(ns, cs)]

NameAlphabet == {"A", "b", " ", "\t"}
TextsUpTo(n) == UNION {[1..k -> NameAlphabet] : k \in 0..n}

CpfEdits == {"7", ".", "-", "*", "a", " "}
Replace(s, i, c) == [s EXCEPT ![i] = c]
Delete(s, i) == SubSeq(s, 1, i - 1) \o SubSeq(s, i + 1, Len(s))
CpfTexts ==
    LET b == ValidCpf.v IN
    {b, OtherCpf.v, BadCpf.v, b \o b, b \o <<" ">> \o OtherCpf.v, CpfReplacement(b)}
    \cup {Replace(b, i, c) : i \in 1..Len(b), c \in CpfEdits}
    \cup {Delete(b, i) : i \in 1..Len(b)}
    \cup {<<c>> \o b : c \in CpfEdits}
    \cup {b \o <<c>> : c \in CpfEdits}

MaskInputs ==
    {Str(s) : s \in TextsUpTo(MaxNameLen) \cup CpfTexts}
    \cup {TitleName, LongName, Address, NaN, NumCpf}

----------------------------------------------------------------------------
(* State before any operation *)

NoFrame == [isNone |-> TRUE, df |-> <<>>]
Frame(df) == [isNone |-> FALSE, df |-> df]
NoNames == [isNone |-> TRUE, names |-> <<>>]
Names(ns) == [isNone |-> FALSE, names |-> ns]
NoOutput == [written |-> FALSE, df |-> <<>>]
NoSession == [logged_in |-> FALSE, access_level |-> "", username |-> ""]
NoResponse == [kind |-> "none", access |-> "", df |-> <<>>]

MaskIdle == inp = NaN /\ out = NaN /\ mpc = "idle"
BatchIdle ==
    /\ column_map = NoMap /\ output = NoOutput
    /\ total_rows = 0 /\ cpf_masked_count = 0 /\ pc = "idle"
WebIdle ==
    /\ DF_ORIGINAL = NoFrame /\ DF_MASKED = NoFrame
    /\ COLUMN_MAP = NoMap /\ NAME_COLS = NoNames
    /\ session = NoSession /\ response = NoResponse

----------------------------------------------------------------------------
(* The maskers, called on one value *)

InitMask ==
    /\ inp \in MaskInputs /\ out = NaN /\ mpc = "in"
    /\ file = NoFile /\ BatchIdle /\ WebIdle

CallMaskCpf ==
    /\ mpc = "in"
    /\ out' = mask_cpf(inp)
    /\ mpc' = "cpf"
    /\ UNCHANGED <<inp, file, batchVars, webVars>>

CallMaskName ==
    /\ mpc = "in"
    /\ out' = mask_name(inp)
    /\ mpc' = "name"
    /\ UNCHANGED <<inp, file, batchVars, webVars>>

NextMask == CallMaskCpf \/ CallMaskName
SpecMask == InitMask /\ [][NextMask]_vars

----------------------------------------------------------------------------
(* app.py: process_data_and_anonymize(FILE_NAME, OUTPUT_FILE) *)

\* the file is absent, or holds a table of NRows rows, or one column without rows
InitBatch ==
    /\ \/ file = NoFile
       \/ FileHolds(TRUE, BatchContents(NRows), MaxCols)
       \/ FileHolds(TRUE, BatchContents(0), 1)
    /\ column_map = NoMap /\ output = NoOutput
    /\ total_rows = 0 /\ cpf_masked_count = 0 /\ pc = "start"
    /\ MaskIdle /\ WebIdle

\* 3: 'CPF' not in column_map or not column_map.get('NOME')
ClassificationFailed(cm) == ~cm.hasCPF \/ cm.NOME = <<>>

\* `col in column_map.values()`: the values are the list of name columns and the
\* CPF column's name, and a column name never equals a list
InMapValues(col, cm) == cm.hasCPF /\ col = cm.CPF

\* 6: the columns selected for the output file
IsOutputCol(col, cm) == Contains(col, Mascarado) \/ InMapValues(col, cm)

output_cols(df, cm) ==
    LET Keep(c) == IsOutputCol(c.name, cm) IN SelectSeq(df, Keep)

\* pd.read_excel raises FileNotFoundError: reported, nothing written
ProcessFileNotFound ==
    /\ pc = "start"
    /\ ~file.exists
    /\ pc' = "done"
    /\ UNCHANGED <<file, column_map, output, total_rows, cpf_masked_count, maskVars, webVars>>

\* the classification cm lacks the CPF column or any name column: return before
\* masking
ProcessClassificationError ==
    /\ pc = "start"
    /\ file.exists
    /\ \E cm \in {classify_columns(file.df)} :
          /\ ClassificationFailed(cm)
          /\ column_map' = cm
    /\ pc' = "done"
    /\ UNCHANGED <<file, output, total_rows, cpf_masked_count, maskVars, webVars>>

\* 4 to 6: mask the frame under the classification cm, count over the masked
\* frame df, write the selected columns
ProcessAndSave ==
    /\ pc = "start"
    /\ file.exists
    /\ \E cm \in {classify_columns(file.df)} :
          /\ ~ClassificationFailed(cm)
          /\ column_map' = cm
          /\ \E df \in {MaskFrame(file.df, cm.CPF, cm.NOME)} :
                /\ total_rows' = len_df(df)
                /\ cpf_masked_count' = Len(dropna(Col(df, CPF_Mascarado)))
                /\ output' = [written |-> TRUE, df |-> output_cols(df, cm)]
    /\ pc' = "done"
    /\ UNCHANGED <<file, maskVars, webVars>>

NextBatch == ProcessFileNotFound \/ ProcessClassificationError \/ ProcessAndSave
SpecBatch == InitBatch /\ [][NextBatch]_vars

----------------------------------------------------------------------------
(* web_app.py: load_and_process_data *)

EmptyFrame == Frame(<<>>)

AlreadyLoaded_WhenEmpty(orig) == ~orig.isNone /\ empty(orig.df)

\* `DF_ORIGINAL is not None and not DF_ORIGINAL.empty`
AlreadyLoaded(orig) == ~orig.isNone /\ ~empty(orig.df)

\* the four globals after reading the frame df, classified as cm
LoadedAs(df, cm) ==
    IF ~cm.hasCPF
    \* DF_MASKED[None] raises KeyError after the map and the names are stored
    THEN [orig |-> EmptyFrame, masked |-> EmptyFrame,
          cmap |-> cm, names |-> Names(cm.NOME)]
    ELSE [orig |-> Frame(df), masked |-> Frame(MaskFrame(df, cm.CPF, cm.NOME)),
          cmap |-> cm, names |-> Names(cm.NOME)]

\* the four globals after load_and_process_data(), from the globals g before it
load_and_process_data(g, f) ==
    IF AlreadyLoaded(g.orig) THEN g
    ELSE IF ~f.exists
    \* pd.read_excel raises: the except branch resets the two frames only
    THEN [g EXCEPT !.orig = EmptyFrame, !.masked = EmptyFrame]
    ELSE LoadedAs(f.df, classify_columns(f.df))

Globals == [orig |-> DF_ORIGINAL, masked |-> DF_MASKED, cmap |-> COLUMN_MAP, names |-> NAME_COLS]
SetGlobals(g) ==
    /\ DF_ORIGINAL' = g.orig /\ DF_MASKED' = g.masked
    /\ COLUMN_MAP' = g.cmap /\ NAME_COLS' = g.names

----------------------------------------------------------------------------
(* web_app.py: the routes *)

per_page == 15

USERS == [u \in {"admin", "user"} |->
            IF u = "admin" THEN [password |-> "senha_alto_padrao", access_level |-> "full"]
            ELSE [password |-> "senha_convencional", access_level |-> "masked"]]
Usernames == {"admin", "user", "guest"}
Passwords == {"senha_alto_padrao", "senha_convencional"}

Response(kind, access, df) == [kind |-> kind, access |-> access, df |-> df]
Plain(kind) == Response(kind, "", <<>>)

\* cells[start:end]
Slice(cells, start, end) ==
    IF start >= Len(cells) THEN <<>>
    ELSE SubSeq(cells, start + 1, IF end < Len(cells) THEN end ELSE Len(cells))

\* df.iloc[start:end]
iloc(df, start, end) ==
    [i \in 1..Len(df) |-> [df[i] EXCEPT !.cells = Slice(df[i].cells, start, end)]]

SeqToSet(q) == {q[i] : i \in 1..Len(q)}

\* the original sensitive columns of the filter: the name columns and the CPF column
SENSITIVE_ORIGINALS(cm) == SeqToSet(cm.NOME) \cup (IF cm.hasCPF THEN {cm.CPF} ELSE {})

\* `col not in SENSITIVE_ORIGINALS and 'Mascarado' not in col`
IsPlainCol(col, cm) == col \notin SENSITIVE_ORIGINALS(cm) /\ ~Contains(col, Mascarado)

\* the names of the columns to display under 'masked' access, in order
cols_to_display(df, cm, name_cols) ==
    LET Plain_(c) == IsPlainCol(c, cm) IN
    [i \in 1..Len(name_cols) |-> MaskedName(name_cols[i])]
        \o <<MaskedName(cm.CPF)>>
        \o SelectSeq(columns(df), Plain_)

\* the columns of df named kept, in that order
Take(df, kept) == [i \in 1..Len(kept) |-> df[ColIndex(df, kept[i])]]

\* paginated_df[[col for col in cols_to_display if col in paginated_df.columns]]
SelectCols(df, cols) ==
    LET Present(c) == HasCol(df, c) IN Take(df, SelectSeq(cols, Present))

\* the page of df_display that starts at row start
Paginate(df_display, start) == iloc(df_display, start, start + per_page)

\* the response for the page paginated
RenderPage(g, access, paginated) ==
    IF access # "masked" THEN Response("table", access, paginated)
    \* COLUMN_MAP is None, or has no 'CPF' key: the request fails
    ELSE IF g.cmap.isNone \/ g.names.isNone \/ ~g.cmap.hasCPF THEN Plain("error")
    ELSE Response("table", access,
                  SelectCols(paginated, cols_to_display(paginated, g.cmap, g.names.names)))

\* the response of data_view for a logged-in session, the data being loaded
render(g, access, page) ==
    RenderPage(g, access,
               Paginate(IF access = "full" THEN g.orig.df ELSE g.masked.df,
                        (page - 1) * per_page))

\* the spreadsheet, present or absent at start, holds a table of NRows rows or
\* one column without rows
Init ==
    /\ \E exists \in BOOLEAN :
          \/ FileHolds(exists, WebContents(NRows), MaxCols)
          \/ FileHolds(exists, WebContents(0), 1)
    /\ DF_ORIGINAL = NoFrame /\ DF_MASKED = NoFrame
    /\ COLUMN_MAP = NoMap /\ NAME_COLS = NoNames
    /\ session = NoSession /\ response = NoResponse
    /\ MaskIdle /\ BatchIdle

\* GET /
LoginPage ==
    /\ response' = Plain("login_page")
    /\ UNCHANGED <<file, session, globalVars, maskVars, batchVars>>

\* POST / with valid credentials
LoginAccepted ==
    /\ \E username \in Usernames, password \in Passwords :
          /\ username \in DOMAIN USERS
          /\ USERS[username].password = password
          /\ session' = [logged_in |-> TRUE,
                         access_level |-> USERS[username].access_level,
                         username |-> username]
    /\ response' = Plain("redirect_data")
    /\ UNCHANGED <<file, globalVars, maskVars, batchVars>>

\* POST / with an unknown user or a wrong password
LoginRejected ==
    /\ \E username \in Usernames, password \in Passwords :
          ~(username \in DOMAIN USERS /\ USERS[username].password = password)
    /\ response' = Plain("login_error")
    /\ UNCHANGED <<file, session, globalVars, maskVars, batchVars>>

\* GET /logout
logout ==
    /\ session' = NoSession
    /\ response' = Plain("redirect_login")
    /\ UNCHANGED <<file, globalVars, maskVars, batchVars>>

\* GET /data without a session
DataViewAnonymous ==
    /\ ~session.logged_in
    /\ response' = Plain("redirect_login")
    /\ UNCHANGED <<file, session, globalVars, maskVars, batchVars>>

\* GET /data?page=n with a session: g is the globals after load_and_process_data()
data_view ==
    /\ session.logged_in
    /\ \E g \in {load_and_process_data(Globals, file)} :
          /\ SetGlobals(g)
          /\ \E page \in 1..MaxPage : response' = render(g, session.access_level, page)
    /\ UNCHANGED <<file, session, maskVars, batchVars>>

\* the spreadsheet is removed from, or put back into, the working directory
FileRemoved ==
    /\ file.exists
    /\ file' = [file EXCEPT !.exists = FALSE]
    /\ UNCHANGED <<webVars, maskVars, batchVars>>

FileRestored ==
    /\ ~file.exists
    /\ file' = [file EXCEPT !.exists = TRUE]
    /\ UNCHANGED <<webVars, maskVars, batchVars>>

Next ==
    \/ LoginPage \/ LoginAccepted \/ LoginRejected \/ logout
    \/ DataViewAnonymous \/ data_view
    \/ FileRemoved \/ FileRestored
Spec == Init /\ [][Next]_vars

----------------------------------------------------------------------------
(* Properties *)

\* the text has the form DDD.DDD.DDD-DD
CpfShape(s) ==
    /\ Len(s) = 14
    /\ \A i \in {1, 2, 3, 5, 6, 7, 9, 10, 11, 13, 14} : s[i] \in Digit
    /\ s[4] = "." /\ s[8] = "." /\ s[12] = "-"

\* the text has the form DDD.***.***-DD
MaskedShape(s) ==
    /\ Len(s) = 14
    /\ \A i \in {1, 2, 3, 13, 14} : s[i] \in Digit
    /\ \A i \in {5, 6, 7, 9, 10, 11} : s[i] = "*"
    /\ s[4] = "." /\ s[8] = "." /\ s[12] = "-"

\* the whitespace-separated tokens of a text, by the places where they start
TokenStarts(s) ==
    {i \in 1..Len(s) : s[i] \notin Whitespace /\ (i = 1 \/ s[i - 1] \in Whitespace)}
TokenEnd(s, i) ==
    CHOOSE j \in i..Len(s) :
        /\ \A k \in i..j : s[k] \notin Whitespace
        /\ j = Len(s) \/ s[j + 1] \in Whitespace
NthStart(s, n) ==
    CHOOSE i \in TokenStarts(s) : Cardinality({j \in TokenStarts(s) : j < i}) = n - 1
TokensOf(s) ==
    [n \in 1..Cardinality(TokenStarts(s)) |-> SubSeq(s, NthStart(s, n), TokenEnd(s, NthStart(s, n)))]

SensitiveColumns(cm) == SeqToSet(cm.NOME) \cup (IF cm.hasCPF THEN {cm.CPF} ELSE {})
AllNull(cells) == \A i \in 1..Len(cells) : cells[i].t = "nan"

\* C1: when process_data_and_anonymize passes classification, no column of the
\* output file is the raw identifier column or a raw person-name column.
C1_OutputExcludesSensitive ==
    output.written =>
        \A i \in 1..Len(output.df) : output.df[i].name \notin SensitiveColumns(column_map)

\* C2: when process_data_and_anonymize passes classification, every unclassified
\* original column is in the output with its cells unmodified, alongside every
\* masked-derived column.
C2_UnclassifiedPassThrough ==
    output.written =>
        /\ \A i \in 1..Len(file.df) :
              file.df[i].name \notin SensitiveColumns(column_map) =>
                  /\ HasCol(output.df, file.df[i].name)
                  /\ Col(output.df, file.df[i].name) = file.df[i].cells
        /\ HasCol(output.df, CPF_Mascarado)
        /\ \A n \in SeqToSet(column_map.NOME) : HasCol(output.df, MaskedName(n))

\* the rendered column c is an original sensitive column: it has the name of a
\* column COLUMN_MAP identifies as sensitive and shows that column's own cells
IsOriginalSensitive(c) ==
    /\ c.name \in SensitiveColumns(COLUMN_MAP)
    /\ c.cells # <<>>
    /\ HasCol(DF_ORIGINAL.df, c.name)
    /\ \E page \in 1..MaxPage :
          c.cells = Col(iloc(DF_ORIGINAL.df, (page - 1) * per_page, page * per_page), c.name)

\* C3: under 'masked' access, no column rendered by data_view is an original
\* column that COLUMN_MAP identifies as sensitive (the identifier column or a
\* person-name column), whatever requests came before.
C3_MaskedViewHidesSensitive ==
    (response.kind = "table" /\ response.access = "masked") =>
        \A i \in 1..Len(response.df) : ~IsOriginalSensitive(response.df[i])

\* C4: when the classification lacks the identifier column or has no name column,
\* nothing is produced: no output file is written by process_data_and_anonymize,
\* and load_and_process_data leaves no masked table in DF_MASKED.
C4_AbortProducesNothing ==
    /\ (pc = "done" /\ ~column_map.isNone /\ (~column_map.hasCPF \/ column_map.NOME = <<>>))
           => ~output.written
    /\ (~COLUMN_MAP.isNone /\ (~COLUMN_MAP.hasCPF \/ COLUMN_MAP.NOME = <<>>))
           => (DF_MASKED.isNone \/ DF_MASKED.df = <<>>)

\* C5: mask_cpf on a text: a text of the form DDD.DDD.DDD-DD becomes DDD.***.***-DD
\* with the same first three and last two digits; any other text, a text that
\* only contains the form included, becomes the null marker.
C5_MaskCpfOnText ==
    (mpc = "cpf" /\ inp.t = "str") =>
        IF CpfShape(inp.v)
        THEN /\ out.t = "str"
             /\ MaskedShape(out.v)
             /\ SubSeq(out.v, 1, 3) = SubSeq(inp.v, 1, 3)
             /\ SubSeq(out.v, 13, 14) = SubSeq(inp.v, 13, 14)
        ELSE out = NaN

C5_Witness ==
    /\ mpc = "cpf"
    /\ inp = Str(<<"7">> \o ValidCpf.v)
    /\ out = NaN

\* mask_name's rule: a text of k >= 1 tokens gives a text of k tokens, the first
\* one unchanged, every later one its first character followed by '*' up to its
\* length; a non-text value and a text without tokens are returned unchanged
MaskNameRule ==
    IF inp.t = "str" /\ TokensOf(inp.v) # <<>>
    THEN /\ out.t = "str"
         /\ LET a == TokensOf(inp.v)
                b == TokensOf(out.v)
            IN /\ Len(b) = Len(a)
               /\ b[1] = a[1]
               /\ \A i \in 2..Len(a) :
                     /\ Len(b[i]) = Len(a[i])
                     /\ b[i][1] = a[i][1]
                     /\ \A j \in 2..Len(a[i]) : b[i][j] = "*"
    ELSE out = inp

\* C6 as stated: mask_name follows the rule, and 'Maria Aparecida Silva' becomes
\* 'Maria A******* S****' (seven asterisks in the second token).
C6_Original ==
    mpc = "name" =>
        /\ MaskNameRule
        /\ inp = LongName => out = Str(<<"M", "a", "r", "i", "a", " ", "A", "*", "*", "*", "*", "*", "*", "*", " ", "S", "*", "*", "*", "*">>)

\* C6 amended: mask_name follows the rule, and 'Maria Aparecida Silva' becomes
\* 'Maria A******** S****' (eight asterisks: 'Aparecida' has nine characters).
C6_MaskNameTokens ==
    mpc = "name" =>
        /\ MaskNameRule
        /\ inp = LongName => out = Str(<<"M", "a", "r", "i", "a", " ", "A", "*", "*", "*", "*", "*", "*", "*", "*", " ", "S", "*", "*", "*", "*">>)

C6_Witness ==
    /\ mpc = "name"
    /\ inp = LongName
    /\ out = Str(<<"M", "a", "r", "i", "a", " ", "A", "*", "*", "*", "*", "*", "*", "*", "*", " ", "S", "*", "*", "*", "*">>)

\* the column is text-typed, has a non-null value, and at least 80 % of its
\* non-null values have the form DDD.DDD.DDD-DD
ReachesThreshold(c) ==
    LET nonnull == {i \in 1..Len(c.cells) : c.cells[i].t # "nan"}
        full == {i \in nonnull : CpfShape(c.cells[i].v)}
    IN /\ c.dtype = "object"
       /\ nonnull # {}
       /\ 5 * Cardinality(full) >= 4 * Cardinality(nonnull)

\* C7: the identifier column assigned by classify_columns is the first text-typed
\* column, in column order, whose non-null full-match rate is >= 0.80; one is
\* assigned whenever such a column exists; it is never also a name column.
C7_IdentifierIsFirstAtThreshold ==
    (pc = "done" /\ file.exists) =>
        /\ column_map.hasCPF =>
              \E i \in 1..Len(file.df) :
                  /\ file.df[i].name = column_map.CPF
                  /\ ReachesThreshold(file.df[i])
                  /\ \A j \in 1..(i - 1) : ~ReachesThreshold(file.df[j])
        /\ (\E i \in 1..Len(file.df) : ReachesThreshold(file.df[i])) => column_map.hasCPF
        /\ column_map.hasCPF => column_map.CPF \notin SeqToSet(column_map.NOME)

C7_Witness ==
    /\ pc = "done" /\ file.exists
    /\ Len(file.df) >= 2
    /\ file.df[1].cells = CpfBelowThreshold(NRows).cells
    /\ file.df[2].cells = CpfWithNumber(NRows).cells
    /\ column_map.hasCPF /\ column_map.CPF = file.df[2].name

\* C8 as stated: a text-typed column whose values are all null is assigned neither
\* identifier nor person name, whatever its name.
C8_Original ==
    (pc = "done" /\ file.exists) =>
        \A i \in 1..Len(file.df) :
            (file.df[i].dtype = "object" /\ AllNull(file.df[i].cells)) =>
                file.df[i].name \notin SensitiveColumns(column_map)

\* C8 amended: a text-typed column whose values are all null is never the
\* identifier column, and it is a person-name column exactly when its name
\* contains a recognized keyword.
C8_AllNullColumn ==
    (pc = "done" /\ file.exists) =>
        \A i \in 1..Len(file.df) :
            (file.df[i].dtype = "object" /\ AllNull(file.df[i].cells)) =>
                /\ ~(column_map.hasCPF /\ column_map.CPF = file.df[i].name)
                /\ file.df[i].name \in SeqToSet(column_map.NOME) <=> HasKeyword(file.df[i].name)

C8_Witness ==
    /\ pc = "done" /\ file.exists
    /\ \E i \in 1..Len(file.df) :
          /\ file.df[i] = [name |-> ColTitular, dtype |-> "object", cells |-> NullText(NRows).cells]
          /\ ColTitular \in SeqToSet(column_map.NOME)
    /\ \E i \in 1..Len(file.df) :
          /\ file.df[i] = [name |-> ColCidade, dtype |-> "object", cells |-> NullText(NRows).cells]
          /\ ColCidade \notin SeqToSet(column_map.NOME)

\* C9 as stated: once load_and_process_data has returned, whatever its outcome,
\* the four globals keep their values under every later request.
C9_Original == [][~DF_ORIGINAL.isNone => UNCHANGED globalVars]_vars

\* C9 amended: once load_and_process_data has returned having loaded a table
\* that is not empty, the four globals keep their values under every later
\* request; after a failed load or an empty table a later request loads again.
C9_LoadedOnce ==
    [][(~DF_ORIGINAL.isNone /\ ~empty(DF_ORIGINAL.df)) => UNCHANGED globalVars]_vars

C9_Witness ==
    /\ ~DF_ORIGINAL.isNone /\ ~empty(DF_ORIGINAL.df)
    /\ ~file.exists
    /\ response.kind = "table" /\ response.access = "masked"

\* C10: every cell of the masked identifier column is the null marker or a text
\* DDD.***.***-DD, whatever the raw cell, and the count of masked identifiers
\* is the number of raw identifier cells of the form DDD.DDD.DDD-DD.
C10_IdentifierCellsRedacted ==
    output.written =>
        /\ HasCol(output.df, CPF_Mascarado)
        /\ \A i \in 1..Len(Col(output.df, CPF_Mascarado)) :
              LET m == Col(output.df, CPF_Mascarado)[i] IN
              m = NaN \/ (m.t = "str" /\ MaskedShape(m.v))
        /\ cpf_masked_count =
              Cardinality({i \in 1..Len(Col(file.df, column_map.CPF)) :
                              LET x == Col(file.df, column_map.CPF)[i] IN
                              x.t = "str" /\ CpfShape(x.v)})

\* the masked values of the sensitive column c of the loaded table
MaskedOf(c) ==
    IF COLUMN_MAP.hasCPF /\ c = COLUMN_MAP.CPF
    THEN ApplyMaskCpf(Col(DF_ORIGINAL.df, c))
    ELSE ApplyMaskName(Col(DF_ORIGINAL.df, c))

\* C11: for the identifier column and for each person-name column C of a loaded
\* table, DF_MASKED stores the masked values of C in the column named
\* C + ' Mascarado', whatever the name of C, and a table rendered by data_view
\* under 'masked' access has the column C + ' Mascarado' for each of them.
C11_MaskedColumnNamedAfterSource ==
    /\ (~DF_MASKED.isNone /\ ~empty(DF_MASKED.df)) =>
          \A c \in SensitiveColumns(COLUMN_MAP) :
              /\ HasCol(DF_MASKED.df, MaskedName(c))
              /\ Col(DF_MASKED.df, MaskedName(c)) = MaskedOf(c)
    /\ (response.kind = "table" /\ response.access = "masked") =>
          \A c \in SensitiveColumns(COLUMN_MAP) : HasCol(response.df, MaskedName(c))

=============================================================================
